---- MODULE Spec2Model ----
(***************************************************************************)
(* Money tracker backend: the transaction ledger, its HTTP handlers         *)
(* (app/routers/transactions.py), registration (app/routers/auth.py) and    *)
(* the relational schema (app/models.py), as a state machine.               *)
(*                                                                         *)
(* Amounts are Numeric(10, 2) values and are modelled as whole numbers of   *)
(* the smallest unit; dates are points of a discrete time line.  An         *)
(* optional integer that is absent is None; an optional string or enum      *)
(* that is absent is NoStr.                                                 *)
(***************************************************************************)
EXTENDS Integers, Sequences, FiniteSets, TLC

VARIABLES
    is_sqlite,            \* database.py IS_SQLITE: which backend the engine is bound to
    accounts,             \* rows of table users
    categories,           \* rows of table categories
    transactions,         \* rows of table transactions
    next_transaction_id,  \* PostgreSQL sequence behind transactions.id
    reg,                  \* the registration requests in progress, one per worker
    listing               \* a listing request in progress, between its queries

vars == <<is_sqlite, accounts, categories, transactions, next_transaction_id,
          reg, listing>>

\* users.id of every row of table users
users == {a.id : a \in accounts}

----------------------------------------------------------------------------
\* Bounds of the model.
MaxUsers == 2
MaxTx == 2
MaxAmount == 2
MaxDate == 2

----------------------------------------------------------------------------
\* Optional values.
None == 0 - 1
NoStr == "none"

\* Python truthiness of an Optional[int] / Optional[Decimal]: None and 0 are falsy.
Truthy(v) == v # None /\ v # 0

\* Python truthiness of an Optional[datetime] / Optional[Enum]: only None is falsy.
TruthyObj(v) == v # None

TruthyStr(v) == v # NoStr

INCOME == "income"
EXPENSE == "expense"
TransactionType == {INCOME, EXPENSE}

UserIds == 1..MaxUsers

\* Email addresses, user names and passwords offered to registration and login.
Emails == 1..MaxUsers
Usernames == 1..MaxUsers
Passwords == {"pw1", "pw2"}

\* Workers serving registration requests side by side.
MaxWorkers == 2
Workers == 1..MaxWorkers
Amounts == 1..MaxAmount
Dates == 1..MaxDate

\* HTTP status codes the handlers produce.
HTTP_200_OK == 200
HTTP_201_CREATED == 201
HTTP_204_NO_CONTENT == 204
HTTP_400_BAD_REQUEST == 400
HTTP_404_NOT_FOUND == 404
HTTP_422_UNPROCESSABLE == 422
HTTP_500_INTERNAL == 500

NoBody == <<>>

Max(S) == CHOOSE x \in S : \A y \in S : y <= x
Min2(a, b) == IF a <= b THEN a ELSE b
Max2(a, b) == IF a >= b THEN a ELSE b

RECURSIVE SumAmounts(_)
\* SQL sum(amount) over a set of rows; the handlers replace NULL by Decimal('0').
SumAmounts(rows) ==
    IF rows = {} THEN 0
    ELSE LET r == CHOOSE x \in rows : TRUE
         IN r.amount + SumAmounts(rows \ {r})

----------------------------------------------------------------------------
\* auth.py register: the default categories created for every new user.
default_categories == <<
    [name |-> "Zarplata",     type |-> INCOME,  icon |-> "money"],
    [name |-> "Produkty",     type |-> EXPENSE, icon |-> "cart"],
    [name |-> "Transport",    type |-> EXPENSE, icon |-> "car"],
    [name |-> "Razvlecheniya", type |-> EXPENSE, icon |-> "film"],
    [name |-> "Zdorovye",     type |-> EXPENSE, icon |-> "hospital"] >>

NextCategoryId == IF categories = {} THEN 1 ELSE Max({c.id : c \in categories}) + 1

NextUserId == IF users = {} THEN 1 ELSE Max(users) + 1

\* Category ids offered to requests: absent, 0, the income and one expense
\* category of every user, and an id no category has.
CategoryIdInputs ==
    {None, 0}
    \cup {Len(default_categories) * (u - 1) + k : u \in UserIds, k \in {1, 2}}
    \cup {Len(default_categories) * MaxUsers + 1}

----------------------------------------------------------------------------
\* Lookups.

\* db.query(Category).filter(Category.id == id, Category.user_id == uid).first()
OwnCategory(id, uid) == {c \in categories : c.id = id /\ c.user_id = uid}

\* The foreign key transactions.category_id -> categories.id
CategoryById(id) == {c \in categories : c.id = id}

\* The transaction lookup without its owner filter.
OwnTransaction_AnyUser(id, uid) == {t \in transactions : t.id = id}

\* db.query(Transaction).filter(Transaction.id == id, Transaction.user_id == uid).first()
OwnTransaction(id, uid) == {t \in transactions : t.id = id /\ t.user_id = uid}

\* TransactionResponse.from_orm plus the category_name / category_icon enrichment.
Enrich(t) ==
    LET cs == CategoryById(t.category_id)
    IN [id |-> t.id, user_id |-> t.user_id, category_id |-> t.category_id,
        amount |-> t.amount, date |-> t.date, description |-> t.description,
        type |-> t.type,
        category_name |-> IF cs = {} THEN NoStr ELSE (CHOOSE c \in cs : TRUE).name,
        category_icon |-> IF cs = {} THEN NoStr ELSE (CHOOSE c \in cs : TRUE).icon]

----------------------------------------------------------------------------
\* app.auth get_password_hash / verify_password (module not in the sources):
\* a hash that verifies exactly the password it was made from.
get_password_hash(password) == <<"hash", password>>

verify_password(password, hashed_password) ==
    hashed_password = get_password_hash(password)

\* models.User(username=..., email=..., hashed_password=...); is_active
\* defaults to True.
NewUser(uid, user_data) ==
    [id |-> uid, email |-> user_data.email, username |-> user_data.username,
     hashed_password |-> get_password_hash(user_data.password),
     is_active |-> TRUE]

\* Default rows that stop one short of the list's end.
DefaultCategoryRows_DropLast(uid, base) ==
    { [id |-> base + k - 1, user_id |-> uid,
       name |-> default_categories[k].name,
       type |-> default_categories[k].type,
       icon |-> default_categories[k].icon]
      : k \in 1..(Len(default_categories) - 1) }

\* The Category rows register adds for user uid, ids from base on.
DefaultCategoryRows(uid, base) ==
    { [id |-> base + k - 1, user_id |-> uid,
       name |-> default_categories[k].name,
       type |-> default_categories[k].type,
       icon |-> default_categories[k].icon]
      : k \in 1..Len(default_categories) }

\* A worker that serves no registration.
RegIdle ==
    [pc |-> "idle", email |-> 0, username |-> 0, password |-> NoStr, uid |-> None]

\* No listing in progress.
ListingIdle ==
    [pc |-> "idle", user_id |-> None, total |-> None, items |-> <<>>,
     total_income |-> None, total_expense |-> None]

Init ==
    /\ is_sqlite \in BOOLEAN
    /\ accounts = {}
    /\ categories = {}
    /\ transactions = {}
    /\ next_transaction_id = 1
    /\ reg = [w \in Workers |-> RegIdle]
    /\ listing = ListingIdle

\* POST /api/v1/auth/register with an email and a user name nobody has, served
\* from its first query to its second commit without interference or failure.
Register ==
    /\ Cardinality(users) < MaxUsers
    /\ LET uid == NextUserId
           user_data == [email |-> uid, username |-> uid, password |-> "pw1"]
       IN /\ \A a \in accounts : a.email # user_data.email
          /\ \A a \in accounts : a.username # user_data.username
          /\ accounts' = accounts \cup {NewUser(uid, user_data)}
          /\ categories' = categories \cup DefaultCategoryRows(uid, NextCategoryId)
    /\ UNCHANGED <<is_sqlite, transactions, next_transaction_id, reg, listing>>

----------------------------------------------------------------------------
\* POST /api/v1/transactions/

\* The id the database gives a new transactions row: PostgreSQL draws it from a
\* sequence; SQLite's INTEGER PRIMARY KEY takes the largest rowid plus one.
NewTransactionId ==
    IF is_sqlite
    THEN (IF transactions = {} THEN 1 ELSE Max({t.id : t \in transactions}) + 1)
    ELSE next_transaction_id

Descriptions == {NoStr, "memo"}

\* TransactionCreate bodies: amount 0 is offered to exercise Field(gt=0).
CreateRequests ==
    [amount : 0..MaxAmount, date : Dates, description : Descriptions,
     type : TransactionType, category_id : CategoryIdInputs]

\* An amount constraint that lets 0 through (ge in place of gt).
AmountValid_NonNegative(amount) == amount >= 0

\* amount: Field(..., gt=0) of TransactionBase, Field(None, gt=0) of TransactionUpdate
AmountValid(amount) == amount > 0

\* CheckConstraint('amount > 0', name='check_amount_positive'); a CHECK is
\* satisfied by NULL.
check_amount_positive(t) == t.amount = None \/ t.amount > 0

\* The create handler without its comparison of the category's type.
CreateCheck_NoTypeCheck(u, req) ==
    IF req.amount <= 0 THEN HTTP_422_UNPROCESSABLE
    ELSE IF Truthy(req.category_id) /\ OwnCategory(req.category_id, u) = {}
    THEN HTTP_404_NOT_FOUND
    ELSE HTTP_201_CREATED

\* The create handler up to the insert, as the status it has decided on:
\* body validation (422), the category lookup (404), the type comparison (400).
CreateCheck(u, req) ==
    IF ~AmountValid(req.amount) THEN HTTP_422_UNPROCESSABLE
    ELSE IF Truthy(req.category_id)
    THEN (IF OwnCategory(req.category_id, u) = {} THEN HTTP_404_NOT_FOUND
          ELSE IF (CHOOSE c \in OwnCategory(req.category_id, u) : TRUE).type # req.type
               THEN HTTP_400_BAD_REQUEST
               ELSE HTTP_201_CREATED)
    ELSE HTTP_201_CREATED

\* The foreign key on category_id is enforced by PostgreSQL and not by SQLite
\* (no PRAGMA foreign_keys is issued).
ForeignKeyOk(category_id) ==
    \/ category_id = None
    \/ CategoryById(category_id) # {}
    \/ is_sqlite

\* The row models.Transaction(**transaction.dict(), user_id=current_user.id).
NewRow(u, req) ==
    [id |-> NewTransactionId, user_id |-> u, category_id |-> req.category_id,
     amount |-> req.amount, date |-> req.date, description |-> req.description,
     type |-> req.type]

\* The whole create handler: its status, its response body and the table after it.
create_transaction(u, req) ==
    LET status == CreateCheck(u, req)
    IN IF status # HTTP_201_CREATED
       THEN [status |-> status, body |-> NoBody, transactions |-> transactions]
       ELSE IF ~ForeignKeyOk(req.category_id) \/ ~check_amount_positive(NewRow(u, req))
       THEN [status |-> HTTP_500_INTERNAL, body |-> NoBody, transactions |-> transactions]
       ELSE [status |-> HTTP_201_CREATED, body |-> Enrich(NewRow(u, req)),
             transactions |-> transactions \cup {NewRow(u, req)}]

\* The requests that populate the ledger carry no description; the handler is
\* examined on every request of CreateRequests in each state reached.
CreateTransaction ==
    \E u \in users, req \in CreateRequests :
        LET out == create_transaction(u, req)
        IN /\ req.description = NoStr
           /\ out.status = HTTP_201_CREATED => NewTransactionId <= MaxTx
           /\ transactions' = out.transactions
           /\ next_transaction_id' =
                  IF out.status = HTTP_201_CREATED /\ ~is_sqlite
                  THEN next_transaction_id + 1 ELSE next_transaction_id
           /\ UNCHANGED <<is_sqlite, accounts, categories, reg, listing>>

----------------------------------------------------------------------------
\* PUT /api/v1/transactions/{transaction_id}

\* Transaction ids offered to requests; one that is not in the table exists in
\* every state with fewer than MaxTx rows or after a delete.
TransactionIdInputs == 1..MaxTx

\* The query parameters of an update; an absent parameter is None / NoStr, and
\* amount 0 is offered to exercise Field(gt=0).
UpdateRequests ==
    [amount : {None} \cup (0..MaxAmount), date : {None} \cup Dates,
     description : Descriptions, type : {NoStr} \cup TransactionType,
     category_id : CategoryIdInputs]

\* transaction_update: TransactionUpdate = Depends() makes FastAPI build the
\* model from the query parameters by calling TransactionUpdate(amount=...,
\* date=..., description=..., type=..., category_id=...) with every parameter,
\* absent ones as their default None.  Every field is therefore set, and
\* dict(exclude_unset=True) returns all five.
update_data(req) == {"amount", "date", "description", "type", "category_id"}

\* The update handler up to the assignment, as the status it has decided on:
\* validation of the query parameters when the TransactionUpdate is built (422),
\* the transaction lookup (404), the category lookup (404), the type comparison (400).
UpdateCheck(u, id, req) ==
    IF req.amount # None /\ ~AmountValid(req.amount) THEN HTTP_422_UNPROCESSABLE
    ELSE IF OwnTransaction(id, u) = {} THEN HTTP_404_NOT_FOUND
    ELSE IF req.category_id # None
    THEN (IF OwnCategory(req.category_id, u) = {} THEN HTTP_404_NOT_FOUND
          ELSE LET category == CHOOSE c \in OwnCategory(req.category_id, u) : TRUE
                   transaction == CHOOSE t \in OwnTransaction(id, u) : TRUE
                   transaction_type ==
                       IF TruthyStr(req.type) THEN req.type ELSE transaction.type
               IN IF category.type # transaction_type
                  THEN HTTP_400_BAD_REQUEST ELSE HTTP_200_OK)
    ELSE HTTP_200_OK

\* for field, value in update_data.items(): setattr(transaction, field, value)
Assigned(t, req) ==
    [id |-> t.id, user_id |-> t.user_id,
     category_id |-> IF "category_id" \in update_data(req) THEN req.category_id ELSE t.category_id,
     amount |-> IF "amount" \in update_data(req) THEN req.amount ELSE t.amount,
     date |-> IF "date" \in update_data(req) THEN req.date ELSE t.date,
     description |-> IF "description" \in update_data(req) THEN req.description ELSE t.description,
     type |-> IF "type" \in update_data(req) THEN req.type ELSE t.type]

\* The NOT NULL columns of transactions (amount, date, type), on both backends.
NotNullOk(t) == t.amount # None /\ t.date # None /\ t.type # NoStr

\* The whole update handler.
update_transaction(u, id, req) ==
    LET status == UpdateCheck(u, id, req)
    IN IF status # HTTP_200_OK
       THEN [status |-> status, body |-> NoBody, transactions |-> transactions]
       ELSE LET old == CHOOSE t \in OwnTransaction(id, u) : TRUE
                new == Assigned(old, req)
            IN IF ~NotNullOk(new) \/ ~ForeignKeyOk(new.category_id)
                  \/ ~check_amount_positive(new)
               THEN [status |-> HTTP_500_INTERNAL, body |-> NoBody,
                     transactions |-> transactions]
               ELSE [status |-> HTTP_200_OK, body |-> Enrich(new),
                     transactions |-> (transactions \ {old}) \cup {new}]

UpdateTransaction ==
    \E u \in users, id \in TransactionIdInputs :
        IF OwnTransaction(id, u) = {}
        THEN \* 422 or 404: no row is touched
             UNCHANGED vars
        ELSE \E req \in UpdateRequests :
                LET out == update_transaction(u, id, req)
                IN /\ req.description = NoStr
                   /\ transactions' = out.transactions
                   /\ UNCHANGED <<is_sqlite, accounts, categories, next_transaction_id, reg, listing>>

----------------------------------------------------------------------------
\* DELETE /api/v1/transactions/{transaction_id}

\* A delete that removes every transaction of the caller.
delete_transaction_AllOfCaller(u, id) ==
    IF OwnTransaction(id, u) = {}
    THEN [status |-> HTTP_404_NOT_FOUND, transactions |-> transactions]
    ELSE [status |-> HTTP_204_NO_CONTENT,
          transactions |-> {t \in transactions : t.user_id # u}]

\* The delete handler: 404 when the caller has no row with the id, otherwise
\* that row is deleted.
delete_transaction(u, id) ==
    IF OwnTransaction(id, u) = {}
    THEN [status |-> HTTP_404_NOT_FOUND, transactions |-> transactions]
    ELSE [status |-> HTTP_204_NO_CONTENT,
          transactions |-> transactions \ OwnTransaction(id, u)]

DeleteTransaction ==
    \E u \in users, id \in TransactionIdInputs :
        LET out == delete_transaction(u, id)
        IN /\ transactions' = out.transactions
           /\ UNCHANGED <<is_sqlite, accounts, categories, next_transaction_id, reg, listing>>

----------------------------------------------------------------------------
\* GET /api/v1/transactions/{transaction_id}

get_transaction(u, id) ==
    IF OwnTransaction(id, u) = {}
    THEN [status |-> HTTP_404_NOT_FOUND, body |-> NoBody]
    ELSE [status |-> HTTP_200_OK,
          body |-> Enrich(CHOOSE t \in OwnTransaction(id, u) : TRUE)]

GetTransaction ==
    \E u \in users, id \in TransactionIdInputs :
        /\ get_transaction(u, id).status \in {HTTP_200_OK, HTTP_404_NOT_FOUND}
        /\ UNCHANGED vars

----------------------------------------------------------------------------
\* GET /api/v1/transactions/  (listing)

\* Query(le=200) on limit.
MaxLimit == 200

\* Filters offered to listing: every field absent or present, a present bound
\* being 0 or a value that splits the ledger.
ListFilters ==
    [start_date : {None, MaxDate}, end_date : {None, 1},
     category_id : {None, 0, 1, Len(default_categories) + 2},
     type : {NoStr} \cup TransactionType,
     min_amount : {None, 0, MaxAmount}, max_amount : {None, 0, 1}]

NoFilter ==
    [start_date |-> None, end_date |-> None, category_id |-> None, type |-> NoStr,
     min_amount |-> None, max_amount |-> None]

\* Every filter, with the whole result on one page.
FilterRequests == { [skip |-> 0, limit |-> MaxLimit, filter |-> f] : f \in ListFilters }

\* Every page of the unfiltered and of the type-filtered listing.
PageRequests ==
    { [skip |-> sk, limit |-> li, filter |-> f] :
        sk \in 0..(MaxTx + 1), li \in 1..MaxTx,
        f \in {NoFilter, [NoFilter EXCEPT !.type = EXPENSE]} }

ListRequests == FilterRequests \cup PageRequests

\* The listing query without its user filter.
UserScope_AllUsers(txs, u) == txs

\* query = db.query(Transaction).filter(Transaction.user_id == current_user.id)
UserScope(txs, u) == {t \in txs : t.user_id = u}

\* The filters the listing handler adds to the query: each "if <param>:" tests
\* the parameter's truth value.
ListQuery(txs, u, f) ==
    {t \in UserScope(txs, u) :
        /\ TruthyObj(f.start_date) => t.date >= f.start_date
        /\ TruthyObj(f.end_date) => t.date <= f.end_date
        /\ Truthy(f.category_id) => t.category_id = f.category_id
        /\ TruthyStr(f.type) => t.type = f.type
        /\ Truthy(f.min_amount) => t.amount >= f.min_amount
        /\ Truthy(f.max_amount) => t.amount <= f.max_amount}

RECURSIVE Perms(_)
Perms(S) ==
    IF S = {} THEN {<<>>}
    ELSE UNION {{<<x>> \o p : p \in Perms(S \ {x})} : x \in S}

\* order_by(desc(Transaction.date)): the database may return rows of equal date
\* in any order, and need not return them in the same order twice.
DateDescOrders(rows) ==
    {s \in Perms(rows) : \A i \in 1..(Len(s) - 1) : s[i].date >= s[i + 1].date}

\* .offset(skip).limit(limit)
OffsetLimit(ord, skip, limit) == SubSeq(ord, skip + 1, Min2(Len(ord), skip + limit))

\* income_query / expense_query of the listing handler: scoped to the user and
\* the type, narrowed by start_date and end_date only.
SummaryQuery(txs, u, f, type) ==
    {t \in txs :
        /\ t.user_id = u
        /\ t.type = type
        /\ TruthyObj(f.start_date) => t.date >= f.start_date
        /\ TruthyObj(f.end_date) => t.date <= f.end_date}

\* A balance that adds the expense instead of subtracting it.
NetBalance_Added(total_income, total_expense) == total_income + total_expense

\* float(total_income - total_expense)
NetBalance(total_income, total_expense) == total_income - total_expense

ListSummary(txs, u, f, total) ==
    LET total_income == SumAmounts(SummaryQuery(txs, u, f, INCOME))
        total_expense == SumAmounts(SummaryQuery(txs, u, f, EXPENSE))
    IN [total_income |-> total_income, total_expense |-> total_expense,
        net_balance |-> NetBalance(total_income, total_expense),
        transaction_count |-> total]

\* Query(ge=0) on skip, Query(ge=1, le=200) on limit, Query(ge=0) on the amounts.
ListValid(q) ==
    /\ q.skip >= 0
    /\ q.limit >= 1 /\ q.limit <= MaxLimit
    /\ q.filter.min_amount = None \/ q.filter.min_amount >= 0
    /\ q.filter.max_amount = None \/ q.filter.max_amount >= 0

\* A page count that rounds down.
Pages_Floor(total, limit) == IF limit > 0 THEN total \div limit ELSE 0

\* pages = (total + limit - 1) // limit if limit > 0 else 0
Pages(total, limit) == IF limit > 0 THEN (total + limit - 1) \div limit ELSE 0

\* page = (skip // limit) + 1 if limit > 0 else 1
Page(skip, limit) == IF limit > 0 THEN (skip \div limit) + 1 ELSE 1

\* The listing handler over table txs; ord is the order the page query returned
\* the matching rows in.
ListOn(txs, u, q, ord) ==
    IF ~ListValid(q) THEN [status |-> HTTP_422_UNPROCESSABLE]
    ELSE LET total == Cardinality(ListQuery(txs, u, q.filter))
             page_rows == OffsetLimit(ord, q.skip, q.limit)
         IN [status |-> HTTP_200_OK,
             items |-> [i \in 1..Len(page_rows) |-> Enrich(page_rows[i])],
             total |-> total,
             page |-> Page(q.skip, q.limit),
             size |-> q.limit,
             pages |-> Pages(total, q.limit),
             summary |-> ListSummary(txs, u, q.filter, total)]

get_transactions(u, q, ord) == ListOn(transactions, u, q, ord)

GetTransactions ==
    \E u \in users, q \in PageRequests :
        \E ord \in DateDescOrders(ListQuery(transactions, u, q.filter)) :
            /\ get_transactions(u, q, ord).status = HTTP_200_OK
            /\ UNCHANGED vars

----------------------------------------------------------------------------
\* crud/transaction.py TransactionCRUD.get_transactions: the listing query as a
\* library function.  No router calls it; skip and limit are plain ints.

\* skip and limit values offered to the function: negative, zero, in range,
\* the largest page size of the HTTP handler and one more.
CrudSkips == {0 - 1, 0, 1}
CrudLimits == {0 - 1, 0, 1, MaxLimit, MaxLimit + 1}

\* "if filters:" / "if filters.get(<key>):" test truth values, as the handler does.
CrudListQuery(txs, u, f) ==
    {t \in txs :
        /\ t.user_id = u
        /\ TruthyObj(f.start_date) => t.date >= f.start_date
        /\ TruthyObj(f.end_date) => t.date <= f.end_date
        /\ Truthy(f.category_id) => t.category_id = f.category_id
        /\ TruthyStr(f.type) => t.type = f.type
        /\ Truthy(f.min_amount) => t.amount >= f.min_amount
        /\ Truthy(f.max_amount) => t.amount <= f.max_amount}

\* query.order_by(desc(date)).offset(skip).limit(limit).all().  A negative
\* OFFSET or LIMIT is an error of the statement on PostgreSQL; SQLite reads a
\* negative LIMIT as no limit and a negative OFFSET as 0.
CrudGetTransactionsOn(txs, u, skip, limit, f, ord) ==
    IF ~is_sqlite /\ (skip < 0 \/ limit < 0)
    THEN [raised |-> TRUE, rows |-> <<>>]
    ELSE [raised |-> FALSE,
          rows |-> OffsetLimit(ord, Max2(skip, 0),
                               IF limit < 0 THEN Len(ord) ELSE limit)]

crud_get_transactions(u, skip, limit, f, ord) ==
    CrudGetTransactionsOn(transactions, u, skip, limit, f, ord)

CrudGetTransactions ==
    \E u \in users, skip \in CrudSkips, limit \in CrudLimits :
        \E ord \in DateDescOrders(CrudListQuery(transactions, u, NoFilter)) :
            /\ crud_get_transactions(u, skip, limit, NoFilter, ord).raised \in BOOLEAN
            /\ UNCHANGED vars

----------------------------------------------------------------------------
\* GET /api/v1/transactions/stats/summary

DateRanges == [start_date : {None} \cup Dates, end_date : {None} \cup Dates]

\* A statistics query whose end_date bound is exclusive.
StatsQuery_ExclusiveEnd(txs, u, r) ==
    {t \in txs :
        /\ t.user_id = u
        /\ TruthyObj(r.start_date) => t.date >= r.start_date
        /\ TruthyObj(r.end_date) => t.date < r.end_date}

\* A statistics query: scoped to the user, narrowed by start_date and end_date.
StatsQuery(txs, u, r) ==
    {t \in txs :
        /\ t.user_id = u
        /\ TruthyObj(r.start_date) => t.date >= r.start_date
        /\ TruthyObj(r.end_date) => t.date <= r.end_date}

StatsOn(txs, u, r) ==
    LET total_income == SumAmounts({t \in StatsQuery(txs, u, r) : t.type = INCOME})
        total_expense == SumAmounts({t \in StatsQuery(txs, u, r) : t.type = EXPENSE})
        transaction_count == Cardinality(StatsQuery(txs, u, r))
        total_amount == total_income + total_expense
    IN [status |-> HTTP_200_OK,
        total_income |-> total_income,
        total_expense |-> total_expense,
        net_balance |-> total_income - total_expense,
        transaction_count |-> transaction_count,
        \* total_amount / transaction_count, kept as the fraction it is
        average_transaction |->
            IF transaction_count > 0
            THEN [num |-> total_amount, den |-> transaction_count]
            ELSE [num |-> 0, den |-> 1]]

get_transaction_stats(u, r) == StatsOn(transactions, u, r)

GetTransactionStats ==
    \E u \in users, r \in DateRanges :
        /\ get_transaction_stats(u, r).status = HTTP_200_OK
        /\ UNCHANGED vars

\* TransactionCRUD.get_transaction_stats (app/crud/transaction.py)

\* The grouped query's filter with the start_date bound left out.
CrudStatsQuery_NoStartDate(txs, user_id, r) ==
    {t \in txs :
        /\ t.user_id = user_id
        /\ TruthyObj(r.end_date) => t.date <= r.end_date}

\* The grouped query's filter: the user's rows, narrowed by start_date and
\* end_date when they are truthy.
CrudStatsQuery(txs, user_id, r) ==
    {t \in txs :
        /\ t.user_id = user_id
        /\ TruthyObj(r.start_date) => t.date >= r.start_date
        /\ TruthyObj(r.end_date) => t.date <= r.end_date}

\* query.group_by(Transaction.type).all(): one row per type that occurs, with
\* count(id) and sum(amount).
CrudStatsGroups(txs, user_id, r) ==
    {[type |-> ty,
      count |-> Cardinality({t \in CrudStatsQuery(txs, user_id, r) : t.type = ty}),
      total |-> SumAmounts({t \in CrudStatsQuery(txs, user_id, r) : t.type = ty})] :
        ty \in {t.type : t \in CrudStatsQuery(txs, user_id, r)}}

\* The result dictionary: zeros, overwritten by the income and the expense
\* group when present, then net_balance and total_transactions.
CrudStatsOn(txs, user_id, r) ==
    LET stats == CrudStatsGroups(txs, user_id, r)
        income == {s \in stats : s.type = INCOME}
        expense == {s \in stats : s.type = EXPENSE}
        total_income == IF income = {} THEN 0 ELSE (CHOOSE s \in income : TRUE).total
        income_count == IF income = {} THEN 0 ELSE (CHOOSE s \in income : TRUE).count
        total_expense == IF expense = {} THEN 0 ELSE (CHOOSE s \in expense : TRUE).total
        expense_count == IF expense = {} THEN 0 ELSE (CHOOSE s \in expense : TRUE).count
    IN [total_income |-> total_income,
        total_expense |-> total_expense,
        income_count |-> income_count,
        expense_count |-> expense_count,
        net_balance |-> total_income - total_expense,
        total_transactions |-> income_count + expense_count]

crud_get_transaction_stats(user_id, r) == CrudStatsOn(transactions, user_id, r)

CrudGetTransactionStats ==
    \E u \in users, r \in DateRanges :
        /\ crud_get_transaction_stats(u, r).total_transactions >= 0
        /\ UNCHANGED vars

----------------------------------------------------------------------------
\* GET /api/v1/transactions/recent/{days}

\* Path(ge=1, le=365) on days.
MaxDays == 365

RecentRequests == [days : 1..MaxDate, limit : 1..MaxTx, now : 1..(MaxDate + 1)]

RecentQuery(txs, u, q) ==
    {t \in txs : t.user_id = u /\ t.date >= q.now - q.days}

RecentOn(txs, u, q, ord) ==
    IF q.days < 1 \/ q.days > MaxDays \/ q.limit < 1 \/ q.limit > MaxLimit
    THEN [status |-> HTTP_422_UNPROCESSABLE]
    ELSE LET rows == OffsetLimit(ord, 0, q.limit)
         IN [status |-> HTTP_200_OK,
             transactions |-> [i \in 1..Len(rows) |-> Enrich(rows[i])],
             count |-> Len(rows), days |-> q.days, limit |-> q.limit]

get_recent_transactions(u, q, ord) == RecentOn(transactions, u, q, ord)

GetRecentTransactions ==
    \E u \in users, q \in RecentRequests :
        \E ord \in DateDescOrders(RecentQuery(transactions, u, q)) :
            /\ get_recent_transactions(u, q, ord).status = HTTP_200_OK
            /\ UNCHANGED vars

----------------------------------------------------------------------------
\* GET /api/v1/transactions/by-category

\* Category joined to Transaction on category_id, filtered by the
\* transaction's user and the date range.
RollupJoin(txs, u, r) ==
    {<<c, t>> \in categories \X txs :
        /\ t.category_id = c.id
        /\ t.user_id = u
        /\ TruthyObj(r.start_date) => t.date >= r.start_date
        /\ TruthyObj(r.end_date) => t.date <= r.end_date}

RollupOn(txs, u, r) ==
    LET joined == RollupJoin(txs, u, r)
        keys == {<<p[1].name, p[1].icon, p[2].type>> : p \in joined}
        group(k) == {p[2] : p \in {x \in joined :
                        <<x[1].name, x[1].icon, x[2].type>> = k}}
    IN [status |-> HTTP_200_OK,
        categories |-> {[name |-> k[1], icon |-> k[2], type |-> k[3],
                         total |-> SumAmounts(group(k)),
                         count |-> Cardinality(group(k))] : k \in keys},
        count |-> Cardinality(keys)]

get_transactions_by_category(u, r) == RollupOn(transactions, u, r)

GetTransactionsByCategory ==
    \E u \in users, r \in DateRanges :
        /\ get_transactions_by_category(u, r).status = HTTP_200_OK
        /\ UNCHANGED vars

----------------------------------------------------------------------------
\* Deleting a category.  The router that serves it (app.routers.categories,
\* included by main.py) is not part of the sources; the handler is taken from
\* the specification: it deletes the caller's category through the mapped
\* classes, as delete_transaction deletes a transaction, and answers not-found
\* for a category the caller does not own.  What happens to the category's
\* transactions is decided by models.py.

\* Category.transactions = relationship(..., cascade="all, delete-orphan"):
\* deleting a Category object deletes the Transaction objects of its collection
\* in the same flush, on either backend, before the database's ON DELETE SET
\* NULL could act on them.
CascadeDeleteOrphan(c, txs) == {t \in txs : t.category_id # c.id}

delete_category(u, id) ==
    IF OwnCategory(id, u) = {}
    THEN [status |-> HTTP_404_NOT_FOUND, categories |-> categories,
          transactions |-> transactions]
    ELSE LET c == CHOOSE x \in OwnCategory(id, u) : TRUE
         IN [status |-> HTTP_204_NO_CONTENT,
             categories |-> categories \ {c},
             transactions |-> CascadeDeleteOrphan(c, transactions)]

\* Category ids offered to the deletions that shape the ledger: the first
\* user's income category and an id no category has; the handler is examined
\* on every id of CategoryIdInputs in each state reached.
DeleteCategoryInputs == {1, Len(default_categories) * MaxUsers + 1}

DeleteCategory ==
    \E u \in users, id \in DeleteCategoryInputs :
        LET out == delete_category(u, id)
        IN /\ categories' = out.categories
           /\ transactions' = out.transactions
           /\ UNCHANGED <<is_sqlite, accounts, next_transaction_id, reg, listing>>

----------------------------------------------------------------------------
\* GET /health

\* What SessionLocal() and SELECT 1 meet: a database that answers, an
\* exception whose text names OperationalError or a connection, any other
\* exception.
Connections == {"answers", "OperationalError", "OtherError"}

\* The check mark the messages of a success begin with.
CheckMark == "[v]"

\* check_database_connection(): the tuple (message, db_type, ok).  The third
\* element is Python's True / False, written as the string of its name: it
\* equals no message and no mark.
check_database_connection(conn) ==
    IF conn = "answers"
    THEN <<"[v] connected", IF is_sqlite THEN "SQLite" ELSE "PostgreSQL", "True">>
    ELSE IF conn = "OperationalError"
    THEN <<"[x] connection error", "unknown", "False">>
    ELSE IF is_sqlite
    THEN <<"[v] SQLite in use (fallback)", "SQLite", "True">>
    ELSE <<"[x] error", "error", "False">>

\* health_check(): is_healthy = CheckMark in db_status, where db_status is the
\* tuple, so `in` compares the mark with each element of the tuple.
health_check(conn) ==
    LET db_status == check_database_connection(conn)
        is_healthy == \E i \in DOMAIN db_status : db_status[i] = CheckMark
    IN [status |-> IF is_healthy THEN "healthy" ELSE "degraded",
        database |-> [status |-> IF is_healthy THEN "connected" ELSE "disconnected",
                      message |-> db_status]]

HealthCheck ==
    \E conn \in Connections :
        /\ health_check(conn).status \in {"healthy", "degraded"}
        /\ UNCHANGED vars

----------------------------------------------------------------------------
Next ==
    \/ Register
    \/ CreateTransaction
    \/ UpdateTransaction
    \/ DeleteTransaction
    \/ GetTransaction
    \/ GetTransactions
    \/ CrudGetTransactions
    \/ GetTransactionStats
    \/ CrudGetTransactionStats
    \/ GetRecentTransactions
    \/ GetTransactionsByCategory
    \/ DeleteCategory
    \/ HealthCheck

Spec == Init /\ [][Next]_vars

----------------------------------------------------------------------------
\* POST /api/v1/auth/register, query by query.  Each worker serves one request
\* at a time; requests of different workers interleave at the database, and a
\* commit can fail (the connection is lost, the server stops).

HTTP_401_UNAUTHORIZED == 401

UserCreateRequests == [email : Emails, username : Usernames, password : Passwords]

ledgerVars == <<is_sqlite, transactions, next_transaction_id, listing>>

\* The request arrives.
RegisterStart(w) ==
    /\ reg[w].pc = "idle"
    /\ \E user_data \in UserCreateRequests :
          reg' = [reg EXCEPT ![w] =
                    [pc |-> "check_email", email |-> user_data.email,
                     username |-> user_data.username,
                     password |-> user_data.password, uid |-> None]]
    /\ UNCHANGED <<accounts, categories>>
    /\ UNCHANGED ledgerVars

\* existing_user = query(User).filter(User.email == user_data.email).first()
RegisterCheckEmail(w) ==
    /\ reg[w].pc = "check_email"
    /\ reg' = [reg EXCEPT ![w].pc =
                  IF \E a \in accounts : a.email = reg[w].email
                  THEN "http_400" ELSE "check_username"]
    /\ UNCHANGED <<accounts, categories>>
    /\ UNCHANGED ledgerVars

\* existing_username = query(User).filter(User.username == user_data.username).first()
RegisterCheckUsername(w) ==
    /\ reg[w].pc = "check_username"
    /\ reg' = [reg EXCEPT ![w].pc =
                  IF \E a \in accounts : a.username = reg[w].username
                  THEN "http_400" ELSE "add_user"]
    /\ UNCHANGED <<accounts, categories>>
    /\ UNCHANGED ledgerVars

\* A users table that admits a second row with the same email or user name.
UsersUniqueOk_NoIndex(user_data) == TRUE

\* Column(..., unique=True) on users.username and users.email
UsersUniqueOk(user_data) ==
    /\ \A a \in accounts : a.email # user_data.email
    /\ \A a \in accounts : a.username # user_data.username

\* db.add(db_user); db.commit(): the insert is refused by a unique index
\* (IntegrityError) or the row is stored.
RegisterCommitUser(w) ==
    /\ reg[w].pc = "add_user"
    /\ IF UsersUniqueOk(reg[w])
       THEN /\ accounts' = accounts \cup {NewUser(NextUserId, reg[w])}
            /\ reg' = [reg EXCEPT ![w].pc = "add_categories", ![w].uid = NextUserId]
       ELSE /\ accounts' = accounts
            /\ reg' = [reg EXCEPT ![w].pc = "IntegrityError"]
    /\ UNCHANGED categories
    /\ UNCHANGED ledgerVars

\* The first commit fails in storage: nothing is stored.
RegisterCommitUserFails(w) ==
    /\ reg[w].pc = "add_user"
    /\ reg' = [reg EXCEPT ![w].pc = "OperationalError"]
    /\ UNCHANGED <<accounts, categories>>
    /\ UNCHANGED ledgerVars

\* for category_data in default_categories: db.add(category); then db.commit()
RegisterCommitCategories(w) ==
    /\ reg[w].pc = "add_categories"
    /\ categories' = categories \cup DefaultCategoryRows(reg[w].uid, NextCategoryId)
    /\ reg' = [reg EXCEPT ![w].pc = "http_200"]
    /\ UNCHANGED accounts
    /\ UNCHANGED ledgerVars

\* The second commit fails in storage: its five inserts are rolled back, the
\* user row of the first commit stays.
RegisterCommitCategoriesFails(w) ==
    /\ reg[w].pc = "add_categories"
    /\ reg' = [reg EXCEPT ![w].pc = "OperationalError"]
    /\ UNCHANGED <<accounts, categories>>
    /\ UNCHANGED ledgerVars

\* The exceptions register does not catch; each is answered 500.
RegisterRaised == {"IntegrityError", "OperationalError"}

\* The response is sent; the worker takes the next request.
RegisterReturn(w) ==
    /\ reg[w].pc \in {"http_200", "http_400"} \cup RegisterRaised
    /\ reg' = [reg EXCEPT ![w] = RegIdle]
    /\ UNCHANGED <<accounts, categories>>
    /\ UNCHANGED ledgerVars

\* The active flag of a user is cleared.  No handler of the sources does it;
\* the flag is a column an operator of the service sets.
DeactivateUser ==
    /\ \E a \in accounts :
          /\ a.is_active
          /\ accounts' = (accounts \ {a}) \cup {[a EXCEPT !.is_active = FALSE]}
    /\ UNCHANGED <<categories, reg>>
    /\ UNCHANGED ledgerVars

----------------------------------------------------------------------------
\* POST /api/v1/auth/login

UserLoginRequests == [email : Emails, password : Passwords]

\* app.auth create_access_token(data={"sub": str(user.id)}, ...): a token that
\* names its subject.
create_access_token(sub) == [sub |-> sub]

\* A login that looks at the active flag before it verifies the password.
login_ActiveFirst(credentials) ==
    LET found == {a \in accounts : a.email = credentials.email}
    IN IF found = {}
       THEN [status |-> HTTP_401_UNAUTHORIZED, access_token |-> NoBody]
       ELSE LET user == CHOOSE a \in found : TRUE
            IN IF ~user.is_active
               THEN [status |-> HTTP_400_BAD_REQUEST, access_token |-> NoBody]
               ELSE IF ~verify_password(credentials.password, user.hashed_password)
               THEN [status |-> HTTP_401_UNAUTHORIZED, access_token |-> NoBody]
               ELSE [status |-> HTTP_200_OK,
                     access_token |-> create_access_token(user.id)]

\* The login handler: one 401 for an unknown email and for a password that
\* does not verify, 400 for a user that is not active, otherwise a token whose
\* subject is the user's id.
login(credentials) ==
    LET found == {a \in accounts : a.email = credentials.email}
    IN IF found = {}
       THEN [status |-> HTTP_401_UNAUTHORIZED, access_token |-> NoBody]
       ELSE LET user == CHOOSE a \in found : TRUE
            IN IF ~verify_password(credentials.password, user.hashed_password)
               THEN [status |-> HTTP_401_UNAUTHORIZED, access_token |-> NoBody]
               ELSE IF ~user.is_active
               THEN [status |-> HTTP_400_BAD_REQUEST, access_token |-> NoBody]
               ELSE [status |-> HTTP_200_OK,
                     access_token |-> create_access_token(user.id)]

Login ==
    \E credentials \in UserLoginRequests :
        /\ login(credentials).status
              \in {HTTP_200_OK, HTTP_400_BAD_REQUEST, HTTP_401_UNAUTHORIZED}
        /\ UNCHANGED vars

NextAuth ==
    \/ \E w \in Workers :
          \/ RegisterStart(w)
          \/ RegisterCheckEmail(w)
          \/ RegisterCheckUsername(w)
          \/ RegisterCommitUser(w)
          \/ RegisterCommitUserFails(w)
          \/ RegisterCommitCategories(w)
          \/ RegisterCommitCategoriesFails(w)
          \/ RegisterReturn(w)
    \/ DeactivateUser
    \/ Login

SpecAuth == Init /\ [][NextAuth]_vars

----------------------------------------------------------------------------
\* GET /api/v1/transactions/, query by query, beside requests of other
\* clients.  The handler is a plain function (served from the thread pool) and
\* issues four statements on its Session: count, page, income sum, expense
\* sum.  The engine is created without an isolation level, so PostgreSQL runs
\* READ COMMITTED (every statement reads the rows committed when it starts)
\* and pysqlite opens no transaction for a SELECT.

\* The listing in progress asks for everything on one page.
ListingRequest == [skip |-> 0, limit |-> MaxLimit, filter |-> NoFilter]

authVars == <<accounts, categories, reg>>

ListBegin ==
    /\ listing.pc = "idle"
    /\ \E u \in users :
          listing' = [ListingIdle EXCEPT !.pc = "count", !.user_id = u]
    /\ UNCHANGED <<is_sqlite, transactions, next_transaction_id>>
    /\ UNCHANGED authVars

\* total = query.count()
ListCount ==
    /\ listing.pc = "count"
    /\ listing' = [listing EXCEPT
          !.pc = "page",
          !.total = Cardinality(ListQuery(transactions, listing.user_id,
                                          ListingRequest.filter))]
    /\ UNCHANGED <<is_sqlite, transactions, next_transaction_id>>
    /\ UNCHANGED authVars

\* query.order_by(desc(date)).offset(skip).limit(limit).all(), and the items
\* built from the rows
ListPage ==
    /\ listing.pc = "page"
    /\ \E ord \in DateDescOrders(ListQuery(transactions, listing.user_id,
                                           ListingRequest.filter)) :
          LET page_rows == OffsetLimit(ord, ListingRequest.skip, ListingRequest.limit)
          IN listing' = [listing EXCEPT
                !.pc = "income",
                !.items = [i \in 1..Len(page_rows) |-> Enrich(page_rows[i])]]
    /\ UNCHANGED <<is_sqlite, transactions, next_transaction_id>>
    /\ UNCHANGED authVars

\* total_income = income_query.scalar() or Decimal('0')
ListIncome ==
    /\ listing.pc = "income"
    /\ listing' = [listing EXCEPT
          !.pc = "expense",
          !.total_income = SumAmounts(SummaryQuery(transactions, listing.user_id,
                                                   ListingRequest.filter, INCOME))]
    /\ UNCHANGED <<is_sqlite, transactions, next_transaction_id>>
    /\ UNCHANGED authVars

\* total_expense = expense_query.scalar() or Decimal('0')
ListExpense ==
    /\ listing.pc = "expense"
    /\ listing' = [listing EXCEPT
          !.pc = "respond",
          !.total_expense = SumAmounts(SummaryQuery(transactions, listing.user_id,
                                                    ListingRequest.filter, EXPENSE))]
    /\ UNCHANGED <<is_sqlite, transactions, next_transaction_id>>
    /\ UNCHANGED authVars

\* The response is sent.
ListReturn ==
    /\ listing.pc = "respond"
    /\ listing' = ListingIdle
    /\ UNCHANGED <<is_sqlite, transactions, next_transaction_id>>
    /\ UNCHANGED authVars

\* The response the listing in progress is about to send.
ListingResponse ==
    [status |-> HTTP_200_OK,
     items |-> listing.items,
     total |-> listing.total,
     page |-> Page(ListingRequest.skip, ListingRequest.limit),
     size |-> ListingRequest.limit,
     pages |-> Pages(listing.total, ListingRequest.limit),
     summary |-> [total_income |-> listing.total_income,
                  total_expense |-> listing.total_expense,
                  net_balance |-> NetBalance(listing.total_income,
                                             listing.total_expense),
                  transaction_count |-> listing.total]]

\* The requests other clients send while a listing runs: creates, updates and
\* deletes of uncategorised transactions of one amount and date.
ConcurrentCreateRequests ==
    {req \in CreateRequests :
        /\ req.amount = 1 /\ req.date = 1
        /\ req.description = NoStr /\ req.category_id = None}

ConcurrentUpdateRequests ==
    {req \in UpdateRequests :
        /\ req.amount = 1 /\ req.date = 1 /\ req.type # NoStr
        /\ req.description = NoStr /\ req.category_id = None}

ConcurrentCreate ==
    \E u \in users, req \in ConcurrentCreateRequests :
        LET out == create_transaction(u, req)
        IN /\ out.status = HTTP_201_CREATED
           /\ NewTransactionId <= MaxTx
           /\ transactions' = out.transactions
           /\ next_transaction_id' =
                  IF is_sqlite THEN next_transaction_id ELSE next_transaction_id + 1
           /\ UNCHANGED <<is_sqlite, listing>>
           /\ UNCHANGED authVars

ConcurrentUpdate ==
    \E u \in users, id \in TransactionIdInputs, req \in ConcurrentUpdateRequests :
        LET out == update_transaction(u, id, req)
        IN /\ out.status = HTTP_200_OK
           /\ transactions' = out.transactions
           /\ UNCHANGED <<is_sqlite, next_transaction_id, listing>>
           /\ UNCHANGED authVars

ConcurrentDelete ==
    \E u \in users, id \in TransactionIdInputs :
        LET out == delete_transaction(u, id)
        IN /\ out.status = HTTP_204_NO_CONTENT
           /\ transactions' = out.transactions
           /\ UNCHANGED <<is_sqlite, next_transaction_id, listing>>
           /\ UNCHANGED authVars

NextListing ==
    \/ Register
    \/ ConcurrentCreate
    \/ ConcurrentUpdate
    \/ ConcurrentDelete
    \/ ListBegin
    \/ ListCount
    \/ ListPage
    \/ ListIncome
    \/ ListExpense
    \/ ListReturn

SpecListing == Init /\ [][NextListing]_vars

----------------------------------------------------------------------------
\* TransactionCRUD.create_transaction / update_transaction / delete_transaction
\* (app/crud/transaction.py), called directly with schema objects.

\* A field of a schema object that was not given to its constructor.
Unset == 0 - 2
UnsetStr == "unset"

\* TransactionCreate objects: constructing one runs Field(gt=0) and the type
\* validator, so only valid amounts and types exist.
TransactionCreateObjects == {t \in CreateRequests : AmountValid(t.amount)}

\* TransactionUpdate objects: each field is unset, explicitly None (where the
\* field's validation accepts None), or a valid value.
TransactionUpdateObjects ==
    [amount : {Unset, None} \cup Amounts, date : {Unset, None} \cup Dates,
     description : {UnsetStr} \cup Descriptions, type : {UnsetStr} \cup TransactionType,
     category_id : {Unset} \cup CategoryIdInputs]

\* db_transaction = models.Transaction(**transaction.dict(), user_id=user_id);
\* db.add; db.commit -- no lookup of the category precedes the insert.
crud_create_transaction(user_id, transaction) ==
    LET db_transaction == NewRow(user_id, transaction)
    IN IF ~ForeignKeyOk(db_transaction.category_id) \/ ~check_amount_positive(db_transaction)
       THEN [raised |-> TRUE, transactions |-> transactions]
       ELSE [raised |-> FALSE, transactions |-> transactions \cup {db_transaction}]

\* update_data = transaction_update.dict(exclude_unset=True);
\* for field, value in update_data.items(): setattr(db_transaction, field, value)
CrudAssigned(t, transaction_update) ==
    [id |-> t.id, user_id |-> t.user_id,
     category_id |-> IF transaction_update.category_id # Unset
                     THEN transaction_update.category_id ELSE t.category_id,
     amount |-> IF transaction_update.amount # Unset
                THEN transaction_update.amount ELSE t.amount,
     date |-> IF transaction_update.date # Unset
              THEN transaction_update.date ELSE t.date,
     description |-> IF transaction_update.description # UnsetStr
                     THEN transaction_update.description ELSE t.description,
     type |-> IF transaction_update.type # UnsetStr
              THEN transaction_update.type ELSE t.type]

\* The row is looked up by id and user_id; when found the set fields are
\* assigned and committed, with no lookup of the category.
crud_update_transaction(transaction_id, user_id, transaction_update) ==
    IF OwnTransaction(transaction_id, user_id) = {}
    THEN [raised |-> FALSE, transactions |-> transactions]
    ELSE LET old == CHOOSE t \in OwnTransaction(transaction_id, user_id) : TRUE
             new == CrudAssigned(old, transaction_update)
         IN IF ~NotNullOk(new) \/ ~ForeignKeyOk(new.category_id)
               \/ ~check_amount_positive(new)
            THEN [raised |-> TRUE, transactions |-> transactions]
            ELSE [raised |-> FALSE, transactions |-> (transactions \ {old}) \cup {new}]

\* db.delete(db_transaction); db.commit() when the caller's row exists.
crud_delete_transaction(transaction_id, user_id) ==
    transactions \ OwnTransaction(transaction_id, user_id)

CrudCreateTransaction ==
    \E u \in users, transaction \in TransactionCreateObjects :
        LET out == crud_create_transaction(u, transaction)
        IN /\ transaction.description = NoStr
           /\ ~out.raised => NewTransactionId <= MaxTx
           /\ transactions' = out.transactions
           /\ next_transaction_id' =
                  IF ~out.raised /\ ~is_sqlite
                  THEN next_transaction_id + 1 ELSE next_transaction_id
           /\ UNCHANGED <<is_sqlite, accounts, categories, reg, listing>>

\* The updates that drive the ledger set type and category_id only.
CrudUpdateTransaction ==
    \E u \in users, id \in TransactionIdInputs, transaction_update \in TransactionUpdateObjects :
        /\ transaction_update.description = UnsetStr
        /\ transaction_update.amount = Unset
        /\ transaction_update.date = Unset
        /\ transactions' = crud_update_transaction(id, u, transaction_update).transactions
        /\ UNCHANGED <<is_sqlite, accounts, categories, next_transaction_id, reg, listing>>

CrudDeleteTransaction ==
    \E u \in users, id \in TransactionIdInputs :
        /\ transactions' = crud_delete_transaction(id, u)
        /\ UNCHANGED <<is_sqlite, accounts, categories, next_transaction_id, reg, listing>>

\* The data-access layer driven directly, beside registration.
NextCrud ==
    \/ Register
    \/ CrudCreateTransaction
    \/ CrudUpdateTransaction
    \/ CrudDeleteTransaction

SpecCrud == Init /\ [][NextCrud]_vars

----------------------------------------------------------------------------
\* The rows of user u, read off the table directly.
OwnRows(u) == {t \in transactions : t.user_id = u}

\* C1: cross-user isolation of reads.  For every caller and every request,
\* every transaction returned by listing, get-by-id and recency is the
\* caller's, and the listing summary, the statistics and the by-category rollup
\* are what they would be if the table held the caller's rows only.
C1_ReadIsolation ==
    \A u \in users :
        /\ \A q \in ListRequests :
             \A ord \in DateDescOrders(ListQuery(transactions, u, q.filter)) :
                LET r == get_transactions(u, q, ord)
                IN /\ \A i \in 1..Len(r.items) : r.items[i].user_id = u
                   /\ r.total <= Cardinality(OwnRows(u))
                   /\ r.summary = ListOn(OwnRows(u), u, q, ord).summary
        /\ \A id \in TransactionIdInputs :
             get_transaction(u, id).status = HTTP_200_OK
                => get_transaction(u, id).body.user_id = u
        /\ \A q \in RecentRequests :
             \A ord \in DateDescOrders(RecentQuery(transactions, u, q)) :
                LET r == get_recent_transactions(u, q, ord)
                IN \A i \in 1..Len(r.transactions) : r.transactions[i].user_id = u
        /\ \A r \in DateRanges :
             /\ get_transaction_stats(u, r) = StatsOn(OwnRows(u), u, r)
             /\ get_transactions_by_category(u, r) = RollupOn(OwnRows(u), u, r)

\* Two users hold transactions, and the unfiltered listing of one of them
\* returns rows while leaving the other's out.
C1_Witness ==
    \E u \in users, v \in users :
        /\ u # v /\ OwnRows(u) # {} /\ OwnRows(v) # {}
        /\ \E ord \in DateDescOrders(ListQuery(transactions, u, NoFilter)) :
              LET r == get_transactions(u, [skip |-> 0, limit |-> MaxLimit,
                                            filter |-> NoFilter], ord)
              IN r.total >= 1 /\ r.total < Cardinality(transactions)

\* C2: polarity invariant.  Every stored transaction with a category has the
\* type of that category, and the category belongs to the transaction's user.
C2_PolarityInvariant ==
    \A t \in transactions :
        t.category_id # None =>
            \E c \in categories :
                c.id = t.category_id /\ c.type = t.type /\ c.user_id = t.user_id

\* C3: update cross-validation.  For every update of an own transaction that
\* supplies category_id, type or both: when the category of the resulting
\* pair (the supplied one, else the stored one) is an own category whose type
\* differs from the resulting type (the supplied one, else the stored one),
\* the update is rejected with 400 and the table is unchanged.
C3_UpdateCrossValidation ==
    \A u \in users, id \in TransactionIdInputs, req \in UpdateRequests :
        (OwnTransaction(id, u) # {} /\ (req.category_id # None \/ req.type # NoStr)) =>
            LET t == CHOOSE x \in OwnTransaction(id, u) : TRUE
                resulting_type == IF req.type # NoStr THEN req.type ELSE t.type
                resulting_category ==
                    IF req.category_id # None THEN req.category_id ELSE t.category_id
                out == update_transaction(u, id, req)
            IN (\E c \in OwnCategory(resulting_category, u) : c.type # resulting_type)
                  => (out.status = HTTP_400_BAD_REQUEST /\ out.transactions = transactions)

\* C4: create polarity check.  A valid create naming an own category of the
\* other polarity is rejected with 400 and inserts nothing; one naming no
\* category, or an own category of the same polarity, answers 201 and inserts
\* exactly one row, owned by the caller and holding the supplied fields.
C4_CreatePolarityCheck ==
    \A u \in users, req \in CreateRequests :
        req.amount > 0 =>
            LET out == create_transaction(u, req)
                own == OwnCategory(req.category_id, u)
            IN /\ (\E c \in own : c.type # req.type)
                    => (out.status = HTTP_400_BAD_REQUEST /\ out.transactions = transactions)
               /\ (req.category_id = None \/ (\E c \in own : c.type = req.type))
                    => /\ out.status = HTTP_201_CREATED
                       /\ transactions \subseteq out.transactions
                       /\ Cardinality(out.transactions \ transactions) = 1
                       /\ \A row \in out.transactions \ transactions :
                            /\ row.user_id = u
                            /\ row.amount = req.amount
                            /\ row.date = req.date
                            /\ row.description = req.description
                            /\ row.type = req.type
                            /\ row.category_id = req.category_id
                            /\ out.body.id = row.id
                            /\ \A t \in transactions : t.id # row.id

\* A transaction filed under an own category is stored (a create naming a
\* category of its polarity was accepted), and a create naming the same user's
\* category of the other polarity is answered 400.
C4_Witness ==
    \E t \in transactions :
        /\ OwnCategory(t.category_id, t.user_id) # {}
        /\ \E req \in CreateRequests :
              /\ req.amount > 0
              /\ \E c \in OwnCategory(req.category_id, t.user_id) : c.type # req.type
              /\ create_transaction(t.user_id, req).status = HTTP_400_BAD_REQUEST

\* C5: category reference check.  A create or an update that supplies a
\* category_id (0 included) for which the caller owns no category is answered
\* 404 and leaves the table unchanged, whether the category is missing or
\* another user's.
C5_CategoryReferenceCheck ==
    \A u \in users :
        /\ \A req \in CreateRequests :
              (req.amount > 0 /\ req.category_id # None
                 /\ OwnCategory(req.category_id, u) = {})
              => LET out == create_transaction(u, req)
                 IN out.status = HTTP_404_NOT_FOUND /\ out.transactions = transactions
        /\ \A id \in TransactionIdInputs, req \in UpdateRequests :
              (OwnTransaction(id, u) # {} /\ req.category_id # None
                 /\ OwnCategory(req.category_id, u) = {})
              => LET out == update_transaction(u, id, req)
                 IN out.status = HTTP_404_NOT_FOUND /\ out.transactions = transactions

\* The filter contract as stated: a supplied field constrains, an absent one
\* does not.
Satisfies(t, f) ==
    /\ f.start_date # None => t.date >= f.start_date
    /\ f.end_date # None => t.date <= f.end_date
    /\ f.category_id # None => t.category_id = f.category_id
    /\ f.type # NoStr => t.type = f.type
    /\ f.min_amount # None => t.amount >= f.min_amount
    /\ f.max_amount # None => t.amount <= f.max_amount

\* C6: listing filter soundness.  For every valid combination of filters,
\* bounds of 0 included, every item listing returns satisfies every supplied
\* predicate.
C6_ListingFilterSoundness ==
    \A u \in users, q \in ListRequests :
        \A ord \in DateDescOrders(ListQuery(transactions, u, q.filter)) :
            LET r == get_transactions(u, q, ord)
            IN r.status = HTTP_200_OK
                  => \A i \in 1..Len(r.items) : Satisfies(r.items[i], q.filter)

\* C7: listing summary scope.  total_income and total_expense are the sums
\* over the income and expense transactions of exactly the set `total`
\* counts (the caller's rows matching all filters), and transaction_count is
\* the number of transactions contributing to the two sums.
C7_ListingSummaryScope ==
    \A u \in users, q \in ListRequests :
        \A ord \in DateDescOrders(ListQuery(transactions, u, q.filter)) :
            LET r == get_transactions(u, q, ord)
                counted == ListQuery(transactions, u, q.filter)
            IN r.status = HTTP_200_OK =>
                /\ r.total = Cardinality(counted)
                /\ r.summary.total_income = SumAmounts({t \in counted : t.type = INCOME})
                /\ r.summary.total_expense = SumAmounts({t \in counted : t.type = EXPENSE})
                /\ r.summary.transaction_count = Cardinality(counted)

\* C8: listing summary balance.  In every listing response net_balance is
\* total_income minus total_expense, and neither total is negative.
C8_ListingSummaryBalance ==
    \A u \in users, q \in ListRequests :
        \A ord \in DateDescOrders(ListQuery(transactions, u, q.filter)) :
            LET r == get_transactions(u, q, ord)
            IN r.status = HTTP_200_OK =>
                /\ r.summary.net_balance = r.summary.total_income - r.summary.total_expense
                /\ r.summary.total_income >= 0
                /\ r.summary.total_expense >= 0

\* A user holds income and expense, and a listing reports both totals and a
\* balance that is neither of them.
C8_Witness ==
    \E u \in users :
        \E ord \in DateDescOrders(ListQuery(transactions, u, NoFilter)) :
            LET r == get_transactions(u, [skip |-> 0, limit |-> 1, filter |-> NoFilter], ord)
            IN /\ r.summary.total_income > 0
               /\ r.summary.total_expense > r.summary.total_income
               /\ r.summary.net_balance < 0

\* C9: pagination count.  total is the number of the caller's transactions
\* that satisfy the filter, whatever skip and limit are, and the page holds
\* min(limit, max(0, total - skip)) items.
C9_PaginationCount ==
    \A u \in users, q \in ListRequests :
        \A ord \in DateDescOrders(ListQuery(transactions, u, q.filter)) :
            LET r == get_transactions(u, q, ord)
            IN r.status = HTTP_200_OK =>
                /\ r.total = Cardinality({t \in OwnRows(u) : Satisfies(t, q.filter)})
                /\ Len(r.items) = Min2(q.limit, Max2(0, r.total - q.skip))
                /\ Len(r.items) <= q.limit

\* The pages at skip = 0, limit, 2*limit, ..., each served by its own query,
\* one after the other.
RECURSIVE ConcatPages(_, _, _, _, _)
ConcatPages(u, f, limit, ords, k) ==
    IF k > MaxTx THEN <<>>
    ELSE get_transactions(u, [skip |-> k * limit, limit |-> limit, filter |-> f],
                          ords[k]).items
         \o ConcatPages(u, f, limit, ords, k + 1)

\* C10: page partition.  For a fixed ledger, filter and limit, the pages at
\* skip = 0, limit, 2*limit, ... together hold every matching transaction
\* exactly once, and do so in the same order on every evaluation.
C10_PagePartition ==
    \A u \in users, limit \in 1..MaxTx :
        LET rows == ListQuery(transactions, u, NoFilter)
            walks == [0..MaxTx -> DateDescOrders(rows)]
        IN \A ords \in walks :
              LET all == ConcatPages(u, NoFilter, limit, ords, 0)
              IN /\ Len(all) = Cardinality(rows)
                 /\ \A t \in rows :
                      Cardinality({i \in 1..Len(all) : all[i].id = t.id}) = 1
                 /\ \A other \in walks :
                      ConcatPages(u, NoFilter, limit, other, 0) = all

\* The total order of rows by date descending with equal dates in id order
\* (ascending when asc, descending otherwise).
TieBrokenOrder(rows, asc) ==
    CHOOSE s \in DateDescOrders(rows) :
        \A i \in 1..(Len(s) - 1) :
            s[i].date = s[i + 1].date =>
                (IF asc THEN s[i].id < s[i + 1].id ELSE s[i].id > s[i + 1].id)

\* C11: listing order.  The items of every listing response are positions
\* [skip, skip+limit) of the matching rows ordered by date descending, rows of
\* equal date standing in one fixed order of their ids, whatever order the
\* database returned them in.
C11_ListingOrder ==
    \E asc \in BOOLEAN :
        \A u \in users, q \in PageRequests :
            \A ord \in DateDescOrders(ListQuery(transactions, u, q.filter)) :
                LET r == get_transactions(u, q, ord)
                    full == TieBrokenOrder(ListQuery(transactions, u, q.filter), asc)
                    want == OffsetLimit(full, q.skip, q.limit)
                IN r.status = HTTP_200_OK
                      => r.items = [i \in 1..Len(want) |-> Enrich(want[i])]

\* C12: page arithmetic.  Every listing response has page = floor(skip/limit)
\* + 1 (the page whose span [(page-1)*limit, page*limit) holds skip), pages =
\* ceil(total/limit) (the least number of pages of `limit` rows that hold
\* `total` rows), size = limit, and pages = 0 exactly when total = 0.
C12_PageArithmetic ==
    \A u \in users, q \in ListRequests :
        \A ord \in DateDescOrders(ListQuery(transactions, u, q.filter)) :
            LET r == get_transactions(u, q, ord)
            IN r.status = HTTP_200_OK =>
                /\ (r.page - 1) * q.limit <= q.skip
                /\ q.skip < r.page * q.limit
                /\ r.pages * q.limit >= r.total
                /\ (r.pages - 1) * q.limit < r.total
                /\ r.size = q.limit
                /\ (r.pages = 0) <=> (r.total = 0)

\* A listing whose total is not a multiple of limit and whose skip lies past
\* the first page: it reports a page after the first and a rounded-up count.
C12_Witness ==
    \E u \in users, q \in PageRequests :
        \E ord \in DateDescOrders(ListQuery(transactions, u, q.filter)) :
            LET r == get_transactions(u, q, ord)
            IN /\ r.total >= 1
               /\ r.total % q.limit # 0
               /\ q.skip >= q.limit
               /\ r.page >= 2
               /\ r.pages = (r.total \div q.limit) + 1

\* Listing requests the HTTP handler must refuse: skip below 0, limit below 1
\* or above MaxLimit.
ListRequestsOutOfRange ==
    { [skip |-> sk, limit |-> li, filter |-> NoFilter] :
        sk \in {0 - 1, 0}, li \in {0, 1, MaxLimit + 1} }
    \ { [skip |-> 0, limit |-> 1, filter |-> NoFilter] }

\* C13: bounded listing.  At every entry point of the listing operation (the
\* HTTP handler and TransactionCRUD.get_transactions) a request with skip < 0
\* or limit outside 1..MaxLimit is rejected, and no answer holds more than
\* MaxLimit rows.
C13_BoundedListing ==
    \A u \in users :
        /\ \A q \in ListRequestsOutOfRange :
              \A ord \in DateDescOrders(ListQuery(transactions, u, q.filter)) :
                 get_transactions(u, q, ord).status = HTTP_422_UNPROCESSABLE
        /\ \A q \in ListRequests :
              \A ord \in DateDescOrders(ListQuery(transactions, u, q.filter)) :
                 Len(get_transactions(u, q, ord).items) <= MaxLimit
        /\ \A skip \in CrudSkips, limit \in CrudLimits :
              \A ord \in DateDescOrders(CrudListQuery(transactions, u, NoFilter)) :
                 LET r == crud_get_transactions(u, skip, limit, NoFilter, ord)
                 IN /\ (skip < 0 \/ limit < 1 \/ limit > MaxLimit) => r.raised
                    /\ Len(r.rows) <= MaxLimit

\* C14: positive amount invariant.  Every stored transaction has amount > 0,
\* and a create or an update that supplies amount <= 0 is refused by
\* validation (422) and leaves the table unchanged.
C14_PositiveAmount ==
    /\ \A t \in transactions : t.amount > 0
    /\ \A u \in users :
        /\ \A req \in CreateRequests :
              req.amount <= 0 =>
                 LET out == create_transaction(u, req)
                 IN out.status = HTTP_422_UNPROCESSABLE /\ out.transactions = transactions
        /\ \A id \in TransactionIdInputs, req \in UpdateRequests :
              (req.amount # None /\ req.amount <= 0) =>
                 LET out == update_transaction(u, id, req)
                 IN out.status = HTTP_422_UNPROCESSABLE /\ out.transactions = transactions

\* A transaction is stored, and an update of it and a create by its owner that
\* supply amount 0 are both refused.
C14_Witness ==
    \E t \in transactions :
        /\ t.amount = MaxAmount
        /\ \E req \in UpdateRequests :
              /\ req.amount = 0 /\ req.date # None /\ req.type # NoStr
              /\ req.category_id = None
              /\ update_transaction(t.user_id, t.id, req).status = HTTP_422_UNPROCESSABLE
        /\ \E req \in CreateRequests :
              /\ req.amount = 0
              /\ create_transaction(t.user_id, req).status = HTTP_422_UNPROCESSABLE

\* C15: partial update frame.  A successful update leaves the transaction with
\* each supplied field at the supplied value and each unsupplied field, its id
\* and its user_id as they were, and leaves every other transaction as it was.
C15_PartialUpdateFrame ==
    \A u \in users, id \in TransactionIdInputs, req \in UpdateRequests :
        LET out == update_transaction(u, id, req)
        IN out.status = HTTP_200_OK =>
            LET old == CHOOSE t \in OwnTransaction(id, u) : TRUE
            IN \E new \in out.transactions :
                  /\ new.id = old.id
                  /\ new.user_id = old.user_id
                  /\ new.amount = IF req.amount # None THEN req.amount ELSE old.amount
                  /\ new.date = IF req.date # None THEN req.date ELSE old.date
                  /\ new.description =
                        IF req.description # NoStr THEN req.description ELSE old.description
                  /\ new.type = IF req.type # NoStr THEN req.type ELSE old.type
                  /\ new.category_id =
                        IF req.category_id # None THEN req.category_id ELSE old.category_id
                  /\ out.transactions \ {new} = transactions \ {old}

\* C16: foreign or missing transaction.  For a transaction id the caller does
\* not own, whether no row has it or another user's row has it, get, delete
\* and every valid update answer 404 (never another refusal), answer the same
\* in both cases, and leave the table unchanged.
C16_ForeignOrMissing ==
    \A u \in users, id \in TransactionIdInputs :
        (\A t \in transactions : t.id = id => t.user_id # u) =>
            /\ get_transaction(u, id).status = HTTP_404_NOT_FOUND
            /\ delete_transaction(u, id).status = HTTP_404_NOT_FOUND
            /\ delete_transaction(u, id).transactions = transactions
            /\ \A req \in UpdateRequests :
                  (req.amount = None \/ req.amount > 0) =>
                     /\ update_transaction(u, id, req).status = HTTP_404_NOT_FOUND
                     /\ update_transaction(u, id, req).transactions = transactions
            /\ \A other \in TransactionIdInputs :
                  (\A t \in transactions : t.id = other => t.user_id # u) =>
                     /\ get_transaction(u, other) = get_transaction(u, id)
                     /\ delete_transaction(u, other) = delete_transaction(u, id)
                     /\ \A req \in UpdateRequests :
                           update_transaction(u, other, req) = update_transaction(u, id, req)

\* A caller faces one id that another user's transaction has and one id that
\* no transaction has, and is answered 404 for both.
C16_Witness ==
    \E u \in users, foreign \in TransactionIdInputs, missing \in TransactionIdInputs :
        /\ \E t \in transactions : t.id = foreign /\ t.user_id # u
        /\ \A t \in transactions : t.id # missing
        /\ get_transaction(u, foreign).status = HTTP_404_NOT_FOUND
        /\ get_transaction(u, missing).status = HTTP_404_NOT_FOUND
        /\ delete_transaction(u, foreign).status = HTTP_404_NOT_FOUND
        /\ delete_transaction(u, foreign).transactions = transactions

\* The caller's transactions dated within the inclusive range; an absent bound
\* does not constrain.
InRange(u, r) ==
    {t \in OwnRows(u) :
        /\ r.start_date # None => t.date >= r.start_date
        /\ r.end_date # None => t.date <= r.end_date}

\* C17: aggregate statistics.  For every caller and optional inclusive date
\* range, stats returns the sum of the caller's income amounts in range, the
\* sum of the expense amounts in range, their difference as net_balance, the
\* number of the caller's transactions in range, and as average_transaction
\* (total_income + total_expense) / transaction_count, or 0 when the count is 0.
C17_AggregateStatistics ==
    \A u \in users, r \in DateRanges :
        LET s == get_transaction_stats(u, r)
            income == SumAmounts({t \in InRange(u, r) : t.type = INCOME})
            expense == SumAmounts({t \in InRange(u, r) : t.type = EXPENSE})
            count == Cardinality(InRange(u, r))
        IN /\ s.total_income = income
           /\ s.total_expense = expense
           /\ s.net_balance = income - expense
           /\ s.transaction_count = count
           /\ count > 0 =>
                 s.average_transaction.num * count
                    = (income + expense) * s.average_transaction.den
           /\ count = 0 => s.average_transaction.num = 0
           /\ s.average_transaction.den > 0

\* A user holds an income and an expense on different dates; stats over a
\* range that leaves the expense out counts one transaction and reports the
\* income alone, and stats over everything averages both.
C17_Witness ==
    \E u \in users, r \in DateRanges :
        LET s == get_transaction_stats(u, r)
            all == get_transaction_stats(u, [start_date |-> None, end_date |-> None])
        IN /\ r.end_date # None
           /\ s.transaction_count = 1
           /\ s.total_income > 0 /\ s.total_expense = 0
           /\ all.transaction_count = 2
           /\ all.total_expense > 0
           /\ all.average_transaction.den = 2

RECURSIVE SumCounts(_)
SumCounts(groups) ==
    IF groups = {} THEN 0
    ELSE LET g == CHOOSE x \in groups : TRUE
         IN g.count + SumCounts(groups \ {g})

\* C18: category rollup.  For every caller and optional date range the rollup
\* holds one group per distinct (category name, category icon, transaction
\* type) among the caller's in-range transactions with a category_id, each
\* with the sum and the number of its transactions; the rows with category_id
\* null are in no group, and the group counts add up to the number of the
\* caller's in-range transactions with a category_id.
C18_CategoryRollup ==
    \A u \in users, r \in DateRanges :
        LET resp == get_transactions_by_category(u, r)
            rows == {t \in InRange(u, r) : t.category_id # None}
            members(g) ==
                {t \in rows : \E c \in categories :
                    /\ c.id = t.category_id
                    /\ c.name = g.name /\ c.icon = g.icon /\ t.type = g.type}
        IN /\ \A t \in rows : \E g \in resp.categories : t \in members(g)
           /\ \A g \in resp.categories :
                 /\ members(g) # {}
                 /\ g.total = SumAmounts(members(g))
                 /\ g.count = Cardinality(members(g))
           /\ \A g, h \in resp.categories :
                 (g.name = h.name /\ g.icon = h.icon /\ g.type = h.type) => g = h
           /\ resp.count = Cardinality(resp.categories)
           /\ SumCounts(resp.categories) = Cardinality(rows)

\* C19: recency window.  For days in 1..MaxDays and limit in 1..MaxLimit,
\* recency returns at most `limit` of the caller's transactions, newest first,
\* each dated within [now - days, now].
C19_RecencyWindow ==
    \A u \in users, q \in RecentRequests :
        \A ord \in DateDescOrders(RecentQuery(transactions, u, q)) :
            LET r == get_recent_transactions(u, q, ord)
            IN r.status = HTTP_200_OK =>
                /\ Len(r.transactions) <= q.limit
                /\ r.count = Len(r.transactions)
                /\ \A i \in 1..Len(r.transactions) :
                      /\ r.transactions[i].user_id = u
                      /\ r.transactions[i].date >= q.now - q.days
                      /\ r.transactions[i].date <= q.now
                /\ \A i \in 1..(Len(r.transactions) - 1) :
                      r.transactions[i].date >= r.transactions[i + 1].date

\* C20: category deletion keeps history.  Deleting a category removes no
\* transaction: every transaction that referenced it is still stored, with
\* category_id null and its other fields as they were, every other
\* transaction is unchanged, and the number of transactions is the same.
C20_CategoryDeletionKeepsHistory ==
    \A u \in users, id \in CategoryIdInputs :
        LET out == delete_category(u, id)
        IN out.status = HTTP_204_NO_CONTENT =>
            /\ Cardinality(out.transactions) = Cardinality(transactions)
            /\ \A t \in transactions :
                  IF t.category_id = id
                  THEN [t EXCEPT !.category_id = None] \in out.transactions
                  ELSE t \in out.transactions

----------------------------------------------------------------------------
\* The categories of user uid.
CategoriesOf(uid) == {c \in categories : c.user_id = uid}

\* C21: atomic registration.  A registration that fails at any step leaves
\* neither its user row nor any of its categories stored, and whenever no
\* registration stands between its commits every stored user has all the
\* default categories.
C21_AtomicRegistration ==
    /\ \A w \in Workers :
          reg[w].pc \in RegisterRaised =>
             /\ \A a \in accounts : a.id # reg[w].uid
             /\ CategoriesOf(reg[w].uid) = {}
    /\ (\A w \in Workers : reg[w].pc # "add_categories") =>
          \A a \in accounts :
             Cardinality(CategoriesOf(a.id)) = Len(default_categories)

\* C22: unique identities under concurrency.  In every state reachable by any
\* interleaving of registrations no two users share an email, a user name or
\* an id, and a registration refused for a taken email or user name has
\* created no user.
C22_UniqueIdentities ==
    /\ \A a, b \in accounts :
          a # b => (a.email # b.email /\ a.username # b.username /\ a.id # b.id)
    /\ \A w \in Workers :
          /\ reg[w].pc \in {"http_400", "IntegrityError"} => reg[w].uid = None
          /\ reg[w].uid # None =>
                \E a \in accounts :
                   /\ a.id = reg[w].uid
                   /\ a.email = reg[w].email /\ a.username = reg[w].username

\* Two registrations with the same email both passed the existence checks
\* before either committed; one stored its user and the other was refused by
\* the unique index.
C22_Witness ==
    \E w1, w2 \in Workers :
        /\ w1 # w2
        /\ reg[w1].email = reg[w2].email
        /\ reg[w1].pc = "add_categories"
        /\ reg[w2].pc = "IntegrityError"
        /\ Cardinality({a \in accounts : a.email = reg[w1].email}) = 1

\* C23: listing snapshot consistency.  The total, the items and the summary a
\* listing returns describe one and the same ledger state: for a listing of
\* everything on one page, total is the number of items and the summary's
\* totals are the sums of the income items and of the expense items.
C23_ListingSnapshot ==
    listing.pc = "respond" =>
        LET r == ListingResponse
            rows == {r.items[i] : i \in 1..Len(r.items)}
        IN /\ r.total = Len(r.items)
           /\ r.summary.transaction_count = Len(r.items)
           /\ r.summary.total_income = SumAmounts({t \in rows : t.type = INCOME})
           /\ r.summary.total_expense = SumAmounts({t \in rows : t.type = EXPENSE})

\* A response item carries the name and icon of the category its category_id
\* refers to, or null for both when category_id is null.
EnrichedAsStated(e) ==
    IF e.category_id # None
    THEN \E c \in categories :
            c.id = e.category_id /\ e.category_name = c.name /\ e.category_icon = c.icon
    ELSE e.category_name = NoStr /\ e.category_icon = NoStr

\* The columns of a stored transaction.
TransactionColumns ==
    {"id", "user_id", "category_id", "amount", "date", "description", "type"}

\* C24: read-time enrichment.  Every transaction in a response of listing,
\* get, create, update and recency with category_id set carries the current
\* name and icon of the referenced category, one with category_id null carries
\* null for both, and the stored rows hold neither.
C24_ReadTimeEnrichment ==
    /\ \A t \in transactions : DOMAIN t = TransactionColumns
    /\ \A u \in users :
        /\ \A q \in PageRequests :
              \A ord \in DateDescOrders(ListQuery(transactions, u, q.filter)) :
                 LET r == get_transactions(u, q, ord)
                 IN \A i \in 1..Len(r.items) : EnrichedAsStated(r.items[i])
        /\ \A id \in TransactionIdInputs :
              get_transaction(u, id).status = HTTP_200_OK
                 => EnrichedAsStated(get_transaction(u, id).body)
        /\ \A q \in RecentRequests :
              \A ord \in DateDescOrders(RecentQuery(transactions, u, q)) :
                 LET r == get_recent_transactions(u, q, ord)
                 IN \A i \in 1..Len(r.transactions) : EnrichedAsStated(r.transactions[i])
        /\ \A req \in CreateRequests :
              LET out == create_transaction(u, req)
              IN out.status = HTTP_201_CREATED =>
                    /\ EnrichedAsStated(out.body)
                    /\ \A t \in out.transactions : DOMAIN t = TransactionColumns
        /\ \A id \in TransactionIdInputs, req \in UpdateRequests :
              LET out == update_transaction(u, id, req)
              IN out.status = HTTP_200_OK =>
                    /\ EnrichedAsStated(out.body)
                    /\ \A t \in out.transactions : DOMAIN t = TransactionColumns

\* C25: engine-level validation.  No transaction persisted by
\* TransactionCRUD.create_transaction or TransactionCRUD.update_transaction
\* has a category_id that refers to a nonexistent category, to a category of
\* another user, or to a category of the other polarity.
C25_EngineLevelValidation ==
    \A t \in transactions :
        t.category_id # None =>
            \E c \in categories :
                c.id = t.category_id /\ c.user_id = t.user_id /\ c.type = t.type

\* C26: the two statistics implementations agree.  For every user and every
\* optional date range, TransactionCRUD.get_transaction_stats and the
\* /stats/summary handler return the same total_income, total_expense and
\* net_balance, and the CRUD total_transactions, which is income_count +
\* expense_count, equals the handler's transaction_count.
C26_StatisticsAgree ==
    \A u \in users, r \in DateRanges :
        LET crud == crud_get_transaction_stats(u, r)
            handler == get_transaction_stats(u, r)
        IN /\ crud.total_income = handler.total_income
           /\ crud.total_expense = handler.total_expense
           /\ crud.net_balance = handler.net_balance
           /\ crud.total_transactions = crud.income_count + crud.expense_count
           /\ crud.total_transactions = handler.transaction_count

\* A user holds an income and an expense on different dates, and a range with
\* a start bound takes in only one of them.
C26_Witness ==
    \E u \in users, r \in DateRanges :
        /\ r.start_date # None
        /\ crud_get_transaction_stats(u, r).total_transactions = 1
        /\ \E rAll \in DateRanges :
              /\ crud_get_transaction_stats(u, rAll).income_count = 1
              /\ crud_get_transaction_stats(u, rAll).expense_count = 1

\* The account the login of credentials would authenticate: the email is
\* registered, the password verifies against the stored hash, the user is active.
Authenticates(a, credentials) ==
    /\ a.email = credentials.email
    /\ verify_password(credentials.password, a.hashed_password)
    /\ a.is_active

\* C27: login gate.  Login issues an access token exactly when a user with the
\* given email exists, the password verifies and the user is active, and the
\* token names that user; an unknown email and a wrong password give the same
\* 401 outcome; 400 is answered only for an inactive user whose password has
\* verified; no failing login carries a token.
C27_LoginGate ==
    \A credentials \in UserLoginRequests :
        LET out == login(credentials)
            known == {a \in accounts : a.email = credentials.email}
            verified == {a \in known :
                            verify_password(credentials.password, a.hashed_password)}
        IN /\ out.status = HTTP_200_OK
                 <=> \E a \in accounts : Authenticates(a, credentials)
           /\ out.status = HTTP_200_OK
                 => \E a \in accounts :
                       /\ Authenticates(a, credentials)
                       /\ out.access_token = create_access_token(a.id)
           /\ out.status # HTTP_200_OK => out.access_token = NoBody
           /\ (known = {} \/ verified = {})
                 => out = [status |-> HTTP_401_UNAUTHORIZED, access_token |-> NoBody]
           /\ out.status = HTTP_400_BAD_REQUEST
                 <=> \E a \in verified : ~a.is_active
           /\ out.status \in {HTTP_200_OK, HTTP_400_BAD_REQUEST, HTTP_401_UNAUTHORIZED}

\* Two registered users, one of them deactivated: the active one logs in, the
\* deactivated one is told so with the right password and gets 401 with a wrong one.
C27_Witness ==
    \E a \in accounts, b \in accounts, good \in Passwords, bad \in Passwords :
        /\ a.is_active /\ ~b.is_active
        /\ login([email |-> a.email, password |-> good]).status = HTTP_200_OK
        /\ \E p \in Passwords : login([email |-> b.email, password |-> p]).status = HTTP_400_BAD_REQUEST
        /\ login([email |-> b.email, password |-> bad]).status = HTTP_401_UNAUTHORIZED

\* The categories a registration has to leave for user uid: five rows, one
\* income and four expense, with pairwise distinct names.
DefaultsAsStated(rows, uid) ==
    /\ Cardinality(rows) = 5
    /\ \A c \in rows : c.user_id = uid
    /\ Cardinality({c \in rows : c.type = INCOME}) = 1
    /\ Cardinality({c \in rows : c.type = EXPENSE}) = 4
    /\ Cardinality({c.name : c \in rows}) = 5

\* The step in which worker w's registration succeeds.
RegistrationSucceeds(w) == reg[w].pc # "http_200" /\ reg'[w].pc = "http_200"

\* C28: registration defaults.  In every state reachable by registrations
\* (user_id, name) is unique over all categories and a registration that has
\* answered 200 has left exactly one user and exactly five categories of that
\* user, one income and four expense, with pairwise distinct names; the step
\* that succeeds adds exactly those five rows, and no step creates or changes
\* a category otherwise or creates more than one user.
C28_RegistrationDefaults ==
    /\ [](/\ \A c1 \in categories, c2 \in categories :
                (c1.user_id = c2.user_id /\ c1.name = c2.name) => c1 = c2
          /\ \A w \in Workers :
                reg[w].pc = "http_200" =>
                   /\ Cardinality({a \in accounts : a.id = reg[w].uid}) = 1
                   /\ \E a \in accounts :
                         /\ a.id = reg[w].uid
                         /\ a.email = reg[w].email
                         /\ a.username = reg[w].username
                   /\ DefaultsAsStated(CategoriesOf(reg[w].uid), reg[w].uid))
    /\ [][/\ categories \subseteq categories'
          /\ Cardinality({a.id : a \in accounts'} \ {a.id : a \in accounts}) <= 1
          /\ \A w \in Workers :
                RegistrationSucceeds(w) =>
                   /\ DefaultsAsStated(categories' \ categories, reg[w].uid)
                   /\ {a.id : a \in accounts'} = {a.id : a \in accounts}
          /\ categories' # categories => \E w \in Workers : RegistrationSucceeds(w)
       ]_vars

\* Two registrations have succeeded, one after the other: the second has just
\* answered 200 and ten categories are stored, five for each user.
C28_Witness ==
    /\ \E w \in Workers : reg[w].pc = "http_200"
    /\ Cardinality(accounts) = 2
    /\ Cardinality(categories) = 10
    /\ \A a \in accounts : Cardinality(CategoriesOf(a.id)) = 5

\* C29: health status tracks the database.  /health answers "healthy" with
\* database status "connected" exactly when check_database_connection reports
\* a successful connection, and "degraded" with "disconnected" exactly when it
\* reports a failure.
C29_HealthTracksDatabase ==
    \A conn \in Connections :
        LET out == health_check(conn)
            ok == check_database_connection(conn)[3] = "True"
        IN /\ (out.status = "healthy" /\ out.database.status = "connected") <=> ok
           /\ (out.status = "degraded" /\ out.database.status = "disconnected") <=> ~ok

\* Update requests that pass the validation of their query parameters.
ValidUpdateRequests ==
    {req \in UpdateRequests : req.amount = None \/ AmountValid(req.amount)}

\* The step in which user u's DELETE of transaction id succeeds: rows are
\* gone, the handler answers 204 and the step is the handler's.
DeleteSucceeds(u, id) ==
    /\ Cardinality(transactions') < Cardinality(transactions)
    /\ delete_transaction(u, id).status = HTTP_204_NO_CONTENT
    /\ transactions' = delete_transaction(u, id).transactions
    /\ DeleteTransaction

====
